---- MODULE Spec2Model ----
(***************************************************************************)
(* consulate/api/lock.py: the Lock endpoint (acquire / release of a key    *)
(* of a session-aware KV store, with a background renewal thread for TTL    *)
(* sessions).  Several Lock objects share one store.  A remote call takes   *)
(* effect in the store in one atomic step; what the caller does with the    *)
(* reply to session.create and session.renew, and what _acquire does after  *)
(* its write, are steps of their own, so that the calls of different Lock   *)
(* objects, the renewal threads (which read the fields of their Lock with   *)
(* no lock held) and the expiry of sessions interleave with them.           *)
(***************************************************************************)
EXTENDS Integers, Sequences, FiniteSets, TLC

VARIABLES
    prefix,      \* Lock._prefix, per Lock object
    session_id,  \* Lock._session_id
    item,        \* Lock._item
    ttl_timer,   \* Lock._ttl_timer: None or the name of a StoppableThread
    pc,          \* where the foreground caller of each Lock object stands
    args,        \* the arguments of the latest _acquire call of each Lock
    threads,     \* the StoppableThread objects ever started
    sessions,    \* the store: session id -> [state, behavior, ttl]
    kv,          \* the store: existing key path -> holding session or None
    uuids,       \* number of uuid4() tokens generated so far
    acquires,    \* number of acquire calls made so far (bounded)
    calls,       \* per Lock: the collaborator calls of the operation in progress
    outcome,     \* per Lock: how its latest operation ended
    entered,     \* per Lock: how the running _release was entered
    reply        \* per Lock: the session id session.create is returning

vars == <<prefix, session_id, item, ttl_timer, pc, args, threads, sessions,
          kv, uuids, acquires, calls, outcome, entered, reply>>

----------------------------------------------------------------------------
(* Values and inputs *)

None == "None"
NoTtl == <<>>
Handles == {"A", "B"}
DEFAULT_PREFIX == "consulate/locks"
MinTtl == 10
MaxAcquires == 2

\* the calls of acquire tried: <<key, behavior, ttl, renew_before_ttl>>
AcquireInputs ==
    { <<"job-1", None, NoTtl, 5>>,
      <<"job-1", None, <<0>>, 5>>,
      <<"job-1", None, <<9>>, 5>>,
      <<"job-1", None, <<10>>, 5>>,
      <<"job-1", None, <<10>>, 10>>,
      <<"", None, NoTtl, 5>>,
      <<None, "delete", NoTtl, 5>> }
PrefixInputs == {None, DEFAULT_PREFIX}
\* the calls of acquire tried by Lock objects contending for one key
ContendInputs ==
    { <<"job-1", None, NoTtl, 5>>,
      <<"job-1", None, <<10>>, 5>>,
      <<"job-1", None, <<10>>, 10>> }

Uuid(n) == "uuid-" \o ToString(n)
InitItem(h) == IF h = "A" THEN Uuid(1) ELSE Uuid(2)
Sid(n) == "s" \o ToString(n)
Tid(n) == "t" \o ToString(n)

----------------------------------------------------------------------------
(* The collaborator: sessions and keys of the store *)

SessionLive(S, sid) == sid \in DOMAIN S /\ S[sid].state = "live"

SessionCreate(S, sid, behavior, ttl) ==
    S @@ (sid :> [state |-> "live",
                  behavior |-> IF behavior = None THEN "release" ELSE behavior,
                  ttl |-> ttl])

\* a session that ends (destroyed or expired) gives up its keys as its
\* behavior says: the key is unlocked, or deleted
KvInvalidate(K, S, sid) ==
    IF ~SessionLive(S, sid) THEN K
    ELSE IF S[sid].behavior = "delete"
         THEN [p \in {q \in DOMAIN K : K[q] # sid} |-> K[p]]
         ELSE [p \in DOMAIN K |-> IF K[p] = sid THEN None ELSE K[p]]

\* how: "destroyed" or "expired"
SessionEnd(S, sid, how) ==
    IF SessionLive(S, sid) THEN [S EXCEPT ![sid].state = how] ELSE S

SessionRenew(S, sid) == SessionLive(S, sid)

KvAcquireOk(K, S, path, sid) ==
    /\ SessionLive(S, sid)
    /\ (path \notin DOMAIN K \/ K[path] \in {None, sid})

KvPutAcquire(K, S, path, sid) ==
    IF KvAcquireOk(K, S, path, sid) THEN (path :> sid) @@ K ELSE K

KvPutRelease(K, path, sid) ==
    IF path \in DOMAIN K /\ sid # None /\ K[path] = sid
    THEN [K EXCEPT ![path] = None] ELSE K

KvDelete(K, path) == [p \in DOMAIN K \ {path} |-> K[p]]

----------------------------------------------------------------------------
(* Pure parts of Lock *)

\* value or ''
PrefixValue(value) == IF value = None THEN "" ELSE value

TtlTooLow_OffByOne(ttl) == ttl # NoTtl /\ ttl[1] < MinTtl - 1
\* ttl is not None and ttl < 10
TtlTooLow(ttl) == ttl # NoTtl /\ ttl[1] < MinTtl

\* "{}s".format(str(ttl))
FormatTtl(ttl) == IF ttl = NoTtl THEN None ELSE ToString(ttl[1]) \o "s"

KeyIsFalsy(key) == key = None \/ key = ""
KeyOrUuid_KeyIgnored(key, n) == <<Uuid(n + 1), n + 1>>
\* key or str(uuid.uuid4()), with n tokens generated before: the key used and
\* the number of tokens generated after
KeyOrUuid(key, n) ==
    IF KeyIsFalsy(key) THEN <<Uuid(n + 1), n + 1>> ELSE <<key, n>>

\* '/'.join([self._prefix, ...])
JoinPath(pfx, key) == pfx \o "/" \o key

TimerTtl_NoMargin(ttl, renew_before_ttl) == ttl[1]
\* timer_ttl = ttl - renew_before_ttl
TimerTtl(ttl, renew_before_ttl) == ttl[1] - renew_before_ttl

\* ttl is not None and timer_ttl > 0
StartsTimer(ttl, renew_before_ttl) ==
    ttl # NoTtl /\ TimerTtl(ttl, renew_before_ttl) > 0

PutFailed_Ignored(response) == FALSE
\* not response
PutFailed(response) == ~response

\* the key property
Key(h) == item[h]

Call(op, path, sid, ok) == [op |-> op, path |-> path, sid |-> sid, ok |-> ok]

\* StoppableThread(target=renew): the thread object with its active flag and
\* the variables its target closes over (self, timer_ttl); where the target
\* stands (pc), how long it is sleeping, and the session and arguments of
\* the acquisition that started it
StoppableThread(h, timer_ttl, sid, a) ==
    [self |-> h, active |-> TRUE, pc |-> "check", timer_ttl |-> timer_ttl,
     sleeping |-> 0, bound |-> sid, arg |-> None, ttl |-> a.ttl,
     renew_before_ttl |-> a.renew_before_ttl]

----------------------------------------------------------------------------
Init ==
    /\ prefix = [h \in Handles |-> DEFAULT_PREFIX]
    /\ session_id = [h \in Handles |-> None]
    /\ item = [h \in Handles |-> InitItem(h)]
    /\ ttl_timer = [h \in Handles |-> None]
    /\ pc = [h \in Handles |-> "idle"]
    /\ args = [h \in Handles |->
                 [key |-> None, behavior |-> None, ttl |-> NoTtl,
                  renew_before_ttl |-> 5]]
    /\ threads = <<>>
    /\ sessions = <<>>
    /\ kv = <<>>
    /\ uuids = Cardinality(Handles)
    /\ acquires = 0
    /\ calls = [h \in Handles |-> <<>>]
    /\ outcome = [h \in Handles |-> "none"]
    /\ entered = [h \in Handles |-> "none"]
    /\ reply = [h \in Handles |-> None]

----------------------------------------------------------------------------
(* Lock.prefix *)
Prefix_Rebinds(h, value) ==
    /\ pc[h] \in {"idle", "held"}
    /\ prefix' = [prefix EXCEPT ![h] = PrefixValue(value)]
    /\ item' = [item EXCEPT ![h] =
                   IF pc[h] = "held"
                   THEN JoinPath(PrefixValue(value), args[h].key) ELSE @]
    /\ UNCHANGED <<session_id, ttl_timer, pc, args, threads, sessions,
                   kv, uuids, acquires, calls, outcome, entered, reply>>

Prefix(h, value) ==
    /\ pc[h] \in {"idle", "held"}
    /\ prefix' = [prefix EXCEPT ![h] = PrefixValue(value)]
    /\ UNCHANGED <<session_id, item, ttl_timer, pc, args, threads, sessions,
                   kv, uuids, acquires, calls, outcome, entered, reply>>

(* Lock.acquire -> Lock._acquire, lines 88-94 up to the moment the store  *)
(* has created the session: the ttl check, and session.create taking      *)
(* effect in the store with its reply on the way; self._session_id still  *)
(* holds what it held.  For at most limit acquire calls of the run        *)
AcquireWithin(limit, h, key, behavior, ttl, renew_before_ttl) ==
    /\ pc[h] = "idle"
    /\ acquires < limit
    /\ acquires' = acquires + 1
    /\ args' = [args EXCEPT ![h] = [key |-> key, behavior |-> behavior,
                                    ttl |-> ttl,
                                    renew_before_ttl |-> renew_before_ttl]]
    /\ entered' = [entered EXCEPT ![h] = "none"]
    /\ IF TtlTooLow(ttl)
       THEN /\ outcome' = [outcome EXCEPT ![h] = "ValueError"]
            /\ calls' = [calls EXCEPT ![h] = <<>>]
            /\ UNCHANGED <<sessions, pc, reply>>
       ELSE LET sid == Sid(Cardinality(DOMAIN sessions) + 1) IN
            /\ sessions' = SessionCreate(sessions, sid, behavior, FormatTtl(ttl))
            /\ reply' = [reply EXCEPT ![h] = sid]
            /\ calls' = [calls EXCEPT ![h] = <<Call("create", None, sid, TRUE)>>]
            /\ outcome' = [outcome EXCEPT ![h] = "none"]
            /\ pc' = [pc EXCEPT ![h] = "a_create"]
    /\ UNCHANGED <<prefix, session_id, item, ttl_timer, threads, kv, uuids>>

Acquire(h, key, behavior, ttl, renew_before_ttl) ==
    AcquireWithin(MaxAcquires, h, key, behavior, ttl, renew_before_ttl)

(* Lock._acquire, lines 89 / 94: session.create has returned and the      *)
(* result is assigned to self._session_id                                  *)
AcquireReturn(h) ==
    /\ pc[h] = "a_create"
    /\ session_id' = [session_id EXCEPT ![h] = reply[h]]
    /\ reply' = [reply EXCEPT ![h] = None]
    /\ pc' = [pc EXCEPT ![h] = "a_put"]
    /\ UNCHANGED <<prefix, item, ttl_timer, args, threads, sessions, kv,
                   uuids, acquires, calls, outcome, entered>>

(* Lock._acquire, lines 96-102: the identity, the conditional write and   *)
(* the test of its response                                                *)
AcquirePut(h) ==
    /\ pc[h] = "a_put"
    /\ LET a == args[h]
           k == KeyOrUuid(a.key, uuids)
           path == JoinPath(prefix[h], k[1])
           sid == session_id[h]
           response == KvAcquireOk(kv, sessions, path, sid)
       IN
       /\ uuids' = k[2]
       /\ item' = [item EXCEPT ![h] = path]
       /\ kv' = KvPutAcquire(kv, sessions, path, sid)
       /\ calls' = [calls EXCEPT ![h] =
                       Append(@, Call("put_acquire", path, sid, response))]
       /\ pc' = [pc EXCEPT ![h] =
                    IF PutFailed(response) THEN "a_destroy" ELSE "a_start"]
    /\ UNCHANGED <<prefix, session_id, ttl_timer, args, threads, sessions,
                   acquires, outcome, entered, reply>>

(* Lock._acquire, lines 107-120, after a granted write: the renewal       *)
(* thread is built, assigned to self._ttl_timer and started when a ttl    *)
(* was given and timer_ttl > 0; then acquire yields to the caller's block *)
AcquireStart(h) ==
    /\ pc[h] = "a_start"
    /\ LET a == args[h]
           sid == session_id[h]
           tid == Tid(Cardinality(DOMAIN threads) + 1)
       IN
       IF StartsTimer(a.ttl, a.renew_before_ttl)
       THEN /\ threads' = threads @@
                   (tid :> StoppableThread(h,
                             TimerTtl(a.ttl, a.renew_before_ttl), sid, a))
            /\ ttl_timer' = [ttl_timer EXCEPT ![h] = tid]
            /\ calls' = [calls EXCEPT ![h] =
                            Append(@, Call("start", None, tid, TRUE))]
       ELSE UNCHANGED <<threads, ttl_timer, calls>>
    /\ pc' = [pc EXCEPT ![h] = "held"]
    /\ outcome' = [outcome EXCEPT ![h] = "acquired"]
    /\ UNCHANGED <<prefix, session_id, item, args, sessions, kv, uuids,
                   acquires, entered, reply>>

AcquireDestroy_Leak(h) ==
    /\ pc[h] = "a_destroy"
    /\ outcome' = [outcome EXCEPT ![h] = "LockFailure"]
    /\ pc' = [pc EXCEPT ![h] = "idle"]
    /\ UNCHANGED <<prefix, session_id, item, ttl_timer, args, threads, uuids,
                   acquires, entered, sessions, kv, calls, reply>>

(* Lock._acquire: the conditional write failed *)
AcquireDestroy(h) ==
    /\ pc[h] = "a_destroy"
    /\ sessions' = SessionEnd(sessions, session_id[h], "destroyed")
    /\ kv' = KvInvalidate(kv, sessions, session_id[h])
    /\ calls' = [calls EXCEPT ![h] =
                    Append(@, Call("destroy", None, session_id[h], TRUE))]
    /\ outcome' = [outcome EXCEPT ![h] = "LockFailure"]
    /\ pc' = [pc EXCEPT ![h] = "idle"]
    /\ UNCHANGED <<prefix, session_id, item, ttl_timer, args, threads, uuids,
                   acquires, entered, reply>>

(* Lock._release, first statement: self._ttl_timer.active = False *)
ReleaseStop(h, how) ==
    /\ entered' = [entered EXCEPT ![h] = how]
    /\ IF ttl_timer[h] = None
       THEN /\ outcome' = [outcome EXCEPT ![h] = "AttributeError"]
            /\ calls' = [calls EXCEPT ![h] = <<>>]
            /\ pc' = [pc EXCEPT ![h] = "idle"]
            /\ UNCHANGED threads
       ELSE /\ threads' = [threads EXCEPT ![ttl_timer[h]].active = FALSE]
            /\ calls' = [calls EXCEPT ![h] =
                            <<Call("stop", None, ttl_timer[h], TRUE)>>]
            /\ outcome' = [outcome EXCEPT ![h] = "none"]
            /\ pc' = [pc EXCEPT ![h] = "r_put"]
    /\ UNCHANGED <<prefix, session_id, item, ttl_timer, args, sessions, kv,
                   uuids, acquires, reply>>

(* Lock.acquire: the caller's block ends normally, the generator resumes  *)
(* after the yield and calls _release                                      *)
BlockExit(h) ==
    /\ pc[h] = "held"
    /\ ReleaseStop(h, "with")

(* Lock.acquire: the caller's block raises; the exception is thrown into  *)
(* the generator at the yield, which has no try/finally around it          *)
BlockRaise(h) ==
    /\ pc[h] = "held"
    /\ pc' = [pc EXCEPT ![h] = "idle"]
    /\ outcome' = [outcome EXCEPT ![h] = "BlockRaised"]
    /\ UNCHANGED <<prefix, session_id, item, ttl_timer, args, threads,
                   sessions, kv, uuids, acquires, calls, entered, reply>>

(* Lock._release called on a Lock object that is not inside acquire's     *)
(* block                                                                   *)
ReleaseDirect(h) ==
    /\ pc[h] = "idle"
    /\ ReleaseStop(h, "direct")

(* Lock._release: the release-clause write.  With self._item None (a      *)
(* release that follows no acquire) the path is built by base.Endpoint     *)
(* from None: the call either raises there or goes out for a path that     *)
(* holds no key                                                            *)
ReleasePut(h) ==
    /\ pc[h] = "r_put"
    /\ \E raises \in IF item[h] = None THEN BOOLEAN ELSE {FALSE} :
         IF raises
         THEN /\ outcome' = [outcome EXCEPT ![h] = "TypeError"]
              /\ pc' = [pc EXCEPT ![h] = "idle"]
              /\ UNCHANGED <<kv, calls>>
         ELSE /\ kv' = KvPutRelease(kv, item[h], session_id[h])
              /\ calls' = [calls EXCEPT ![h] =
                              Append(@, Call("put_release", item[h],
                                  session_id[h], kv' # kv))]
              /\ pc' = [pc EXCEPT ![h] = "r_delete"]
              /\ UNCHANGED outcome
    /\ UNCHANGED <<prefix, session_id, item, ttl_timer, args, threads,
                   sessions, uuids, acquires, entered, reply>>

(* Lock._release: self._adapter.delete *)
ReleaseDelete(h) ==
    /\ pc[h] = "r_delete"
    /\ kv' = KvDelete(kv, item[h])
    /\ calls' = [calls EXCEPT ![h] =
                    Append(@, Call("delete", item[h], None, TRUE))]
    /\ pc' = [pc EXCEPT ![h] = "r_destroy"]
    /\ UNCHANGED <<prefix, session_id, item, ttl_timer, args, threads,
                   sessions, uuids, acquires, outcome, entered, reply>>

(* Lock._release: self._session.destroy *)
ReleaseDestroy(h) ==
    /\ pc[h] = "r_destroy"
    /\ sessions' = SessionEnd(sessions, session_id[h], "destroyed")
    /\ kv' = KvInvalidate(kv, sessions, session_id[h])
    /\ calls' = [calls EXCEPT ![h] =
                    Append(@, Call("destroy", None, session_id[h], TRUE))]
    /\ pc' = [pc EXCEPT ![h] = "r_reset"]
    /\ UNCHANGED <<prefix, session_id, item, ttl_timer, args, threads, uuids,
                   acquires, outcome, entered, reply>>

(* Lock._release: self._item, self._session_id = None, None *)
ReleaseReset(h) ==
    /\ pc[h] = "r_reset"
    /\ item' = [item EXCEPT ![h] = None]
    /\ session_id' = [session_id EXCEPT ![h] = None]
    /\ calls' = [calls EXCEPT ![h] = Append(@, Call("reset", None, None, TRUE))]
    /\ outcome' = [outcome EXCEPT ![h] = "released"]
    /\ pc' = [pc EXCEPT ![h] = "idle"]
    /\ UNCHANGED <<prefix, ttl_timer, args, threads, sessions, kv, uuids,
                   acquires, entered, reply>>

----------------------------------------------------------------------------
(* renew(), the target of the StoppableThread *)

(* self._ttl_timer.active, as the target of thread t reads it: the flag   *)
(* of the thread that is the Lock's timer when the test is made            *)
LoopCondition(t) == threads[ttl_timer[threads[t].self]].active

(* time.sleep(timer_ttl) has returned, if the thread slept;              *)
(* while(self._ttl_timer.active)                                          *)
RenewCheck(t) ==
    /\ threads[t].pc \in {"check", "sleep", "failed"}
    /\ threads' = [threads EXCEPT
                      ![t].pc = IF LoopCondition(t) THEN "renew" ELSE "done",
                      ![t].sleeping = 0]
    /\ UNCHANGED <<prefix, session_id, item, ttl_timer, pc, args, sessions,
                   kv, uuids, acquires, calls, outcome, entered, reply>>

(* if self._session.renew(self._session_id), line 115: the argument is    *)
(* evaluated, whatever the Lock's field holds at this moment, and the      *)
(* request goes out                                                        *)
RenewCall(t) ==
    /\ threads[t].pc = "renew"
    /\ threads' = [threads EXCEPT ![t].pc = "renewing",
                                  ![t].arg = session_id[threads[t].self]]
    /\ UNCHANGED <<prefix, session_id, item, ttl_timer, pc, args, sessions,
                   kv, uuids, acquires, calls, outcome, entered, reply>>

(* line 115-116: the store answers the renew request for the session it   *)
(* was sent for; time.sleep(timer_ttl) when the answer is true             *)
RenewReturn(t) ==
    /\ threads[t].pc = "renewing"
    /\ LET th == threads[t]
           ok == SessionRenew(sessions, th.arg)
       IN threads' = [threads EXCEPT ![t] =
              [th EXCEPT !.pc = IF ok THEN "sleep" ELSE "failed",
                         !.sleeping = IF ok THEN th.timer_ttl ELSE 0,
                         !.arg = None]]
    /\ UNCHANGED <<prefix, session_id, item, ttl_timer, pc, args, sessions,
                   kv, uuids, acquires, calls, outcome, entered, reply>>

----------------------------------------------------------------------------
(* The store lets a session with a TTL expire *)
SessionExpire(sid) ==
    /\ SessionLive(sessions, sid)
    /\ sessions[sid].ttl # None
    /\ sessions' = SessionEnd(sessions, sid, "expired")
    /\ kv' = KvInvalidate(kv, sessions, sid)
    /\ UNCHANGED <<prefix, session_id, item, ttl_timer, pc, args, threads,
                   uuids, acquires, calls, outcome, entered, reply>>

----------------------------------------------------------------------------
NextOf(H) ==
    \/ \E h \in H, value \in PrefixInputs : Prefix(h, value)
    \/ \E h \in H, in \in AcquireInputs :
            Acquire(h, in[1], in[2], in[3], in[4])
    \/ \E h \in H : AcquireReturn(h)
    \/ \E h \in H : AcquirePut(h)
    \/ \E h \in H : AcquireStart(h)
    \/ \E h \in H : AcquireDestroy(h)
    \/ \E h \in H : BlockExit(h)
    \/ \E h \in H : BlockRaise(h)
    \/ \E h \in H : ReleasePut(h)
    \/ \E h \in H : ReleaseDelete(h)
    \/ \E h \in H : ReleaseDestroy(h)
    \/ \E h \in H : ReleaseReset(h)
    \/ \E t \in DOMAIN threads : RenewCheck(t)
    \/ \E t \in DOMAIN threads : RenewCall(t)
    \/ \E t \in DOMAIN threads : RenewReturn(t)
    \/ \E sid \in DOMAIN sessions : SessionExpire(sid)

Next == NextOf({"A"})
Spec == Init /\ [][Next]_vars

\* two Lock objects contending for one key under the default prefix; the
\* blocks of their callers end normally
NextTwo ==
    \/ \E h \in Handles, in \in ContendInputs :
            Acquire(h, in[1], in[2], in[3], in[4])
    \/ \E h \in Handles : AcquireReturn(h)
    \/ \E h \in Handles : AcquirePut(h)
    \/ \E h \in Handles : AcquireStart(h)
    \/ \E h \in Handles : AcquireDestroy(h)
    \/ \E h \in Handles : BlockExit(h)
    \/ \E h \in Handles : ReleasePut(h)
    \/ \E h \in Handles : ReleaseDelete(h)
    \/ \E h \in Handles : ReleaseDestroy(h)
    \/ \E h \in Handles : ReleaseReset(h)
    \/ \E t \in DOMAIN threads : RenewCheck(t)
    \/ \E t \in DOMAIN threads : RenewCall(t)
    \/ \E t \in DOMAIN threads : RenewReturn(t)
    \/ \E sid \in DOMAIN sessions : SessionExpire(sid)
SpecTwo == Init /\ [][NextTwo]_vars

\* two Lock objects that take the same key with a ttl again and again, one
\* acquire call more than in the other specifications
RaceInput == <<"job-1", None, <<10>>, 5>>
NextRace ==
    \/ \E h \in Handles :
            AcquireWithin(MaxAcquires + 1, h, RaceInput[1], RaceInput[2],
                          RaceInput[3], RaceInput[4])
    \/ \E h \in Handles : AcquireReturn(h)
    \/ \E h \in Handles : AcquirePut(h)
    \/ \E h \in Handles : AcquireStart(h)
    \/ \E h \in Handles : AcquireDestroy(h)
    \/ \E h \in Handles : BlockExit(h)
    \/ \E h \in Handles : ReleasePut(h)
    \/ \E h \in Handles : ReleaseDelete(h)
    \/ \E h \in Handles : ReleaseDestroy(h)
    \/ \E h \in Handles : ReleaseReset(h)
    \/ \E t \in DOMAIN threads : RenewCheck(t)
    \/ \E t \in DOMAIN threads : RenewCall(t)
    \/ \E t \in DOMAIN threads : RenewReturn(t)
    \/ \E sid \in DOMAIN sessions : SessionExpire(sid)
SpecRace == Init /\ [][NextRace]_vars

\* one Lock object whose caller also calls _release outside acquire's block
NextDirect == Next \/ ReleaseDirect("A")
SpecDirect == Init /\ [][NextDirect]_vars

\* one Lock object whose caller's blocks never raise: acquire / release cycles
NextCycles ==
    \/ \E value \in PrefixInputs : Prefix("A", value)
    \/ \E in \in AcquireInputs : Acquire("A", in[1], in[2], in[3], in[4])
    \/ AcquireReturn("A")
    \/ AcquirePut("A")
    \/ AcquireStart("A")
    \/ AcquireDestroy("A")
    \/ BlockExit("A")
    \/ ReleasePut("A")
    \/ ReleaseDelete("A")
    \/ ReleaseDestroy("A")
    \/ ReleaseReset("A")
    \/ \E t \in DOMAIN threads : RenewCheck(t)
    \/ \E t \in DOMAIN threads : RenewCall(t)
    \/ \E t \in DOMAIN threads : RenewReturn(t)
    \/ \E sid \in DOMAIN sessions : SessionExpire(sid)
SpecCycles == Init /\ [][NextCycles]_vars

----------------------------------------------------------------------------
(* Properties *)

CountOp(c, op) == Cardinality({i \in DOMAIN c : c[i].op = op})
HasOp(c, op) == \E i \in DOMAIN c : c[i].op = op
\* the session created by the acquire call whose calls are c
CreatedSid(c) == c[1].sid
ReleaseEnded(h) ==
    pc[h] = "idle" /\ outcome[h] \in {"released", "AttributeError", "TypeError"}

\* C1: whenever the caller's block is left, normally or by an exception,
\* _release has been entered for that acquisition
C1_ScopedRelease ==
    \A h \in Handles :
        (pc[h] = "idle" /\ outcome[h] \in {"BlockRaised"} \cup
                              {"released", "AttributeError", "TypeError"})
            => entered[h] = "with"

\* C2: an acquire call with a ttl below 10 ends with the ValueError and
\* changes nothing in the store, starts no thread and leaves the Lock alone
BelowMinimum(ttl) == ttl # NoTtl /\ ttl[1] < 10
C2_LowTtlNoCalls ==
    [][(acquires' # acquires /\ BelowMinimum(args'["A"].ttl))
          => /\ outcome'["A"] = "ValueError"
             /\ calls'["A"] = <<>>
             /\ pc'["A"] = "idle"
             /\ UNCHANGED <<sessions, kv, threads, session_id, item,
                            ttl_timer>>]_vars
C2_Witness ==
    /\ outcome["A"] = "ValueError"
    /\ args["A"].ttl = <<9>>
    /\ Cardinality(DOMAIN sessions) = 1

\* C3: when control reaches the caller's block, the acquire call has created
\* exactly one session and issued exactly one conditional write, granted, on
\* the identity with acquire = that session
C3_OneSessionOneWrite ==
    \A h \in Handles :
        pc[h] = "held" =>
            LET c == calls[h] IN
            /\ CountOp(c, "create") = 1
            /\ CountOp(c, "put_acquire") = 1
            /\ c[1].op = "create" /\ c[2].op = "put_acquire"
            /\ c[1].sid = session_id[h]
            /\ c[2].sid = session_id[h]
            /\ c[2].path = item[h]
            /\ c[2].ok
            /\ session_id[h] \in DOMAIN sessions
            /\ ~HasOp(c, "destroy")
C3_Witness ==
    /\ pc["A"] = "held"
    /\ session_id["A"] = "s2"
    /\ item["A"] \in DOMAIN kv /\ kv[item["A"]] = "s2"

\* C4: once the conditional write of an acquire call has failed, the Lock
\* never reaches the caller's block and no thread is started for that
\* session; when the call has ended it has raised LockFailure and destroyed
\* the session it created exactly once
PutRefused(h) ==
    \E i \in DOMAIN calls[h] :
        calls[h][i].op = "put_acquire" /\ ~calls[h][i].ok
C4_FailedWriteCleansUp ==
    \A h \in Handles :
        PutRefused(h) =>
            LET c == calls[h] IN
            /\ pc[h] \in {"a_destroy", "idle"}
            /\ ~HasOp(c, "start")
            /\ \A t \in DOMAIN threads : threads[t].bound # CreatedSid(c)
            /\ pc[h] = "idle" =>
                 /\ outcome[h] = "LockFailure"
                 /\ CountOp(c, "destroy") = 1
                 /\ c[Len(c)].op = "destroy" /\ c[Len(c)].sid = CreatedSid(c)
                 /\ ~SessionLive(sessions, CreatedSid(c))
C4_Witness ==
    /\ outcome["A"] = "LockFailure"
    /\ pc["A"] = "idle"
    /\ PutRefused("A")
    /\ sessions[session_id["A"]].state = "destroyed"

\* C5: two Lock objects that each make one acquire call for the same key,
\* with no session expiring: they are never both in their blocks, and when
\* both calls have ended exactly one is in its block and the other has
\* raised LockFailure
AttemptEnded(h) ==
    pc[h] = "held" \/ (pc[h] = "idle" /\ outcome[h] = "LockFailure")
SameKeyOnce ==
    /\ acquires = 2
    /\ \A h \in Handles :
          /\ session_id[h] # None
          /\ args[h].key = "job-1"
          /\ prefix[h] = DEFAULT_PREFIX
    /\ \A sid \in DOMAIN sessions : sessions[sid].state # "expired"
C5_ExactlyOneWins ==
    SameKeyOnce =>
        /\ Cardinality({h \in Handles : pc[h] = "held"}) <= 1
        /\ (\A h \in Handles : AttemptEnded(h)) =>
              \E h \in Handles :
                  /\ pc[h] = "held"
                  /\ \A g \in Handles \ {h} :
                        pc[g] = "idle" /\ outcome[g] = "LockFailure"
C5_Witness ==
    /\ SameKeyOnce
    /\ session_id["B"] = "s1" /\ session_id["A"] = "s2"
    /\ pc["A"] = "held"
    /\ pc["B"] = "idle" /\ outcome["B"] = "LockFailure"

\* C6: when the _release that follows a successful acquire has ended, the
\* Lock's session id and identity are None, the session is destroyed and the
\* key is gone from the store
C6_RoundTrip ==
    \A h \in Handles :
        (ReleaseEnded(h) /\ entered[h] = "with") =>
            LET c == calls[h] IN
            /\ outcome[h] = "released"
            /\ session_id[h] = None /\ item[h] = None
            /\ \A i \in DOMAIN c :
                  /\ c[i].op = "destroy" => ~SessionLive(sessions, c[i].sid)
                  /\ c[i].op = "delete" => c[i].path \notin DOMAIN kv

\* C7: a Lock in its block has a renewal thread for its session exactly when
\* ttl was given and ttl - renew_before_ttl > 0; that thread is the Lock's
\* timer, and every thread sleeps ttl - renew_before_ttl after a renewal
\* that succeeded
C7_RenewalTaskIffPositive ==
    /\ \A h \in Handles :
          pc[h] = "held" =>
              LET a == args[h]
                  mine == {t \in DOMAIN threads :
                               threads[t].bound = session_id[h]}
              IN
              /\ (mine # {}) <=>
                     (a.ttl # NoTtl /\ a.ttl[1] - a.renew_before_ttl > 0)
              /\ mine # {} =>
                     /\ mine = {ttl_timer[h]}
                     /\ threads[ttl_timer[h]].self = h
                     /\ threads[ttl_timer[h]].timer_ttl =
                            a.ttl[1] - a.renew_before_ttl
              /\ (a.ttl = <<10>> /\ a.renew_before_ttl = 10) => mine = {}
    /\ \A t \in DOMAIN threads :
          LET th == threads[t] IN
          /\ th.timer_ttl = th.ttl[1] - th.renew_before_ttl
          /\ th.timer_ttl > 0
          /\ th.sleeping = IF th.pc = "sleep" THEN th.timer_ttl ELSE 0
          /\ (th.ttl = <<10>> /\ th.renew_before_ttl = 5) => th.timer_ttl = 5
C7_Witness ==
    /\ pc["A"] = "held"
    /\ args["A"].ttl = <<10>>
    /\ ttl_timer["A"] \in DOMAIN threads
    /\ threads[ttl_timer["A"]].pc = "sleep"
    /\ threads[ttl_timer["A"]].sleeping = 5
    /\ threads[ttl_timer["A"]].bound = session_id["A"]

\* C8: a renewal thread whose renew call has returned false while its own
\* active flag is true makes no further renew call
C8_RenewalFailureTerminal ==
    [][\A t \in DOMAIN threads :
          (threads[t].pc = "failed" /\ threads[t].active)
              => threads'[t].pc # "renew"]_vars

\* C9: _release on a Lock that is not inside acquire's block does not end
\* with the AttributeError of self._ttl_timer being None
C9_ReleaseUnheldNoFault ==
    \A h \in Handles :
        entered[h] = "direct" => outcome[h] # "AttributeError"

\* C10: a _release in which a step has raised has still attempted
\* session.destroy and has reset the Lock's session id and identity
C10_BestEffortCleanup ==
    \A h \in Handles :
        (entered[h] = "with" /\ pc[h] = "idle"
            /\ outcome[h] \in {"AttributeError", "TypeError"}) =>
                /\ HasOp(calls[h], "destroy")
                /\ session_id[h] = None /\ item[h] = None

\* C11: the renewal threads of a Lock that are still looping (not finished,
\* loop condition true) are exactly one while the Lock is in its block with
\* a ttl and ttl - renew_before_ttl > 0, never more than one, and none while
\* it is in its block without a ttl
Looping(h) ==
    {t \in DOMAIN threads :
        threads[t].self = h /\ threads[t].pc # "done" /\ LoopCondition(t)}
C11_OneRenewalTask ==
    \A h \in Handles :
        /\ Cardinality(Looping(h)) <= 1
        /\ pc[h] = "held" =>
              Cardinality(Looping(h)) =
                  IF args[h].ttl # NoTtl
                     /\ args[h].ttl[1] - args[h].renew_before_ttl > 0
                  THEN 1 ELSE 0

\* C12: a renewal thread whose own active flag has been cleared by _release
\* leaves the loop at its next test of the loop condition, whatever the
\* Lock does in between
C12_StopContract ==
    [][\A t \in DOMAIN threads :
          (~threads[t].active /\ threads[t].pc \in {"check", "sleep", "failed"})
              => threads'[t].pc \in {threads[t].pc, "done"}]_vars

\* C13: every renew call of a renewal thread carries the session id of the
\* acquisition that started the thread
C13_RenewsOwnSession ==
    [][\A t \in DOMAIN threads :
          (threads[t].pc = "renew" /\ threads'[t].pc # "renew")
              => threads'[t].arg = threads[t].bound]_vars

\* C14: every _release that follows a block, with or without a ttl, has
\* issued in this order the release-clause write for the Lock's session on
\* its identity, the delete of that key, the destroy of that session and the
\* reset, and the clearing of the timer's flag before all of them when the
\* Lock has a timer
IsRpc(call) == call.op # "stop"
OpsOf(c) == [i \in DOMAIN c |-> c[i].op]
C14_ReleaseOrdering ==
    \A h \in Handles :
        (ReleaseEnded(h) /\ entered[h] = "with") =>
            LET c == calls[h]
                rpc == SelectSeq(c, IsRpc)
            IN  /\ OpsOf(rpc) = <<"put_release", "delete", "destroy", "reset">>
                /\ HasOp(c, "stop") => c[1].op = "stop"
                /\ rpc[1].sid # None /\ rpc[1].sid = rpc[3].sid
                /\ rpc[1].path # None /\ rpc[1].path = rpc[2].path

\* C15: a Lock that holds no lock, before its first acquire, after an
\* acquire that ended with the ValueError or with LockFailure, and after a
\* release, has no session id
C15_NoSessionWhenUnheld ==
    \A h \in Handles :
        (pc[h] = "idle"
            /\ outcome[h] \in {"none", "ValueError", "LockFailure", "released"})
                => session_id[h] = None

\* C16: the identity is fixed for one acquire/release cycle: _acquire makes
\* it from the prefix of that moment (never None) and the key or a new
\* uuid and writes to it, no step changes it while the Lock is in its block
\* or releasing, so a prefix set in the block does not touch it, and the
\* release write and the delete go to that same path
InCycle(h) == pc[h] \in {"held", "r_put", "r_delete", "r_destroy"}
LastCall(c) == c[Len(c)]
C16_IdentityStable ==
    [][\A h \in Handles :
          /\ prefix'[h] # None
          /\ InCycle(h) => item'[h] = item[h]
          /\ (pc[h] = "a_put" /\ pc'[h] # "a_put") =>
                /\ item'[h] = JoinPath(prefix[h],
                                 IF KeyIsFalsy(args[h].key)
                                 THEN Uuid(uuids') ELSE args[h].key)
                /\ \E i \in DOMAIN calls'[h] :
                      /\ calls'[h][i].op = "put_acquire"
                      /\ calls'[h][i].path = item'[h]
          /\ (pc[h] \in {"r_put", "r_delete"}
                /\ pc'[h] \in {"r_delete", "r_destroy"}) =>
                    LastCall(calls'[h]).path = item[h]]_vars
\* the prefix was set to None inside the block of a ttl acquisition made
\* under the default prefix, and the release has written and deleted the
\* path under the default prefix
C16_Witness ==
    /\ pc["A"] = "r_destroy"
    /\ prefix["A"] = ""
    /\ item["A"] = JoinPath(DEFAULT_PREFIX, "job-1")
    /\ \E i, j \in DOMAIN calls["A"] :
          /\ calls["A"][i].op = "put_release"
          /\ calls["A"][j].op = "delete"
          /\ calls["A"][i].path = JoinPath(DEFAULT_PREFIX, "job-1")
          /\ calls["A"][j].path = JoinPath(DEFAULT_PREFIX, "job-1")

\* C17: a step of one Lock's _release leaves every key that is locked by
\* the live session of another Lock in its block in the store and locked by
\* that session
HoldsKey(K, S, g) ==
    /\ pc[g] = "held"
    /\ SessionLive(S, session_id[g])
    /\ item[g] \in DOMAIN K
    /\ K[item[g]] = session_id[g]
C17_ReleaseSparesOthers ==
    [][\A h \in Handles, g \in Handles :
          (h # g /\ pc[h] \in {"r_put", "r_delete", "r_destroy"}
                 /\ pc'[h] # pc[h] /\ HoldsKey(kv, sessions, g))
              => (item[g] \in DOMAIN kv' /\ kv'[item[g]] = session_id[g])]_vars

\* C18: at most one Lock is in its block for a key with a session that is
\* still live
InCriticalSection(h) ==
    pc[h] = "held" /\ SessionLive(sessions, session_id[h])
C18_MutualExclusion ==
    \A h \in Handles, g \in Handles :
        (InCriticalSection(h) /\ InCriticalSection(g) /\ item[h] = item[g])
            => h = g

====
